---- MODULE Spec2Model ----
(***************************************************************************)
(* Claude Usage Dashboard (src/src/App.tsx, types in src/unnamed/part_000).*)
(*                                                                         *)
(* The App component's state, the archive loader processZipFile with its   *)
(* suspension points (JSZip.loadAsync, zipEntry.async), the event handlers *)
(* that start, reset and select, and the aggregation functions.            *)
(*                                                                         *)
(* Strings whose characters the code inspects (entry paths, file names)    *)
(* are sequences of one-character strings; strings that are only compared  *)
(* or shown (messages, uuids, JSON texts) are TLA+ strings.                *)
(***************************************************************************)
EXTENDS Integers, Sequences, FiniteSets, TLC

VARIABLES
    users,           \* useState<User[]>          App.tsx:836
    conversations,   \* useState<Conversation[]>  App.tsx:837
    projects,        \* useState<Project[]>       App.tsx:838
    dataLoaded,      \* useState(false)           App.tsx:839
    loading,         \* useState(false)           App.tsx:840
    error,           \* useState<string | null>   App.tsx:841
    selectedConvId,  \* useState<string | null>   App.tsx:843
    attempts,        \* the processZipFile calls suspended at an await, oldest first,
                     \* each with its history: a name (id) it keeps while suspended,
                     \* whether data of a call started later is loaded (overtaken)
                     \* and whether handleReset has run since it started (reset)
    last,            \* history: the attempt the previous step settled (its file, its
                     \* outcome, the loaded state at its start and before this step)
    view             \* the values the useMemo hooks derive (App.tsx:928-947)

vars == <<users, conversations, projects, dataLoaded, loading, error,
          selectedConvId, attempts, last, view>>

(***************************************************************************)
(* Bounds of the model.                                                    *)
(***************************************************************************)
MaxInFlight == 2     \* load attempts suspended at the same time
MaxEntries == 3      \* entries of a generated archive
MaxUsers == 2        \* users of an aggregated users array
MaxConversations == 2 \* conversations of an aggregated conversations array
MaxDated == 3        \* conversations of an aggregated array of dated conversations

(***************************************************************************)
(* Strings as character sequences.                                         *)
(***************************************************************************)
Null == "<null>"     \* the null of string | null

MaxOf(S) == CHOOSE m \in S : \A n \in S : n <= m
MinOf(S) == CHOOSE m \in S : \A n \in S : m <= n

UpperToLower ==
    [c \in {"U", "S", "E", "R", "J", "O", "N", "C", "V", "A", "T", "I", "P"} |->
        CASE c = "U" -> "u" [] c = "S" -> "s" [] c = "E" -> "e" [] c = "R" -> "r"
          [] c = "J" -> "j" [] c = "O" -> "o" [] c = "N" -> "n" [] c = "C" -> "c"
          [] c = "V" -> "v" [] c = "A" -> "a" [] c = "T" -> "t" [] c = "I" -> "i"
          [] c = "P" -> "p"]

\* String.prototype.toLowerCase
ToLowerCase(s) ==
    [i \in 1..Len(s) |-> IF s[i] \in DOMAIN UpperToLower THEN UpperToLower[s[i]] ELSE s[i]]

\* path.split("/").pop(): what follows the last "/" (the whole string without one)
SplitPop(path) ==
    LET slashes == {i \in 1..Len(path) : path[i] = "/"}
    IN  IF slashes = {} THEN path
        ELSE SubSeq(path, MaxOf(slashes) + 1, Len(path))

\* String.prototype.endsWith
EndsWith(s, suffix) ==
    /\ Len(s) >= Len(suffix)
    /\ SubSeq(s, Len(s) - Len(suffix) + 1, Len(s)) = suffix

UsersJson == <<"u", "s", "e", "r", "s", ".", "j", "s", "o", "n">>
ConversationsJson ==
    <<"c", "o", "n", "v", "e", "r", "s", "a", "t", "i", "o", "n", "s", ".", "j", "s", "o", "n">>
ProjectsJson == <<"p", "r", "o", "j", "e", "c", "t", "s", ".", "j", "s", "o", "n">>
DotZip == <<".", "z", "i", "p">>

(***************************************************************************)
(* JavaScript values and JSON.parse.                                       *)
(***************************************************************************)
JNull == [t |-> "null"]
JNum(n) == [t |-> "number", v |-> n]
JStr(s) == [t |-> "string", v |-> s]
JBool(b) == [t |-> "boolean", v |-> b]
JObj == [t |-> "object"]
JArr(s) == [t |-> "array", v |-> s]

\* ToBoolean, as the ! operator applies it
Truthy(x) ==
    CASE x.t = "null" -> FALSE
      [] x.t = "number" -> x.v # 0
      [] x.t = "string" -> x.v # ""
      [] x.t = "boolean" -> x.v
      [] OTHER -> TRUE

IsArray(x) == x.t = "array"

SyntaxErrorMsg == "Unexpected token b in JSON at position 1"
LoadAsyncMsg == "Can't find end of central directory : is this a zip file ?"
MustContainMsg == "Zip must contain users.json and conversations.json"
MustBeArraysMsg == "users.json and conversations.json must be arrays"
PleaseDropMsg == "Please drop a .zip file"

Returned(v) == [ok |-> TRUE, value |-> v, message |-> ""]
Thrown(m) == [ok |-> FALSE, value |-> JNull, message |-> m]

RecA == [uuid |-> "A"]
RecB == [uuid |-> "B"]

\* JSON.parse on the texts the archives of the model hold
JSONParse(text) ==
    CASE text = "[]" -> Returned(JArr(<<>>))
      [] text = "[{\"uuid\":\"A\"}]" -> Returned(JArr(<<RecA>>))
      [] text = "[{\"uuid\":\"B\"}]" -> Returned(JArr(<<RecB>>))
      [] text = "[{\"uuid\":\"A\"},{\"uuid\":\"B\"}]" -> Returned(JArr(<<RecA, RecB>>))
      [] text = "{}" -> Returned(JObj)
      [] text = "null" -> Returned(JNull)
      [] text = "0" -> Returned(JNum(0))
      [] text = "7" -> Returned(JNum(7))
      [] text = "\"\"" -> Returned(JStr(""))
      [] text = "\"x\"" -> Returned(JStr("x"))
      [] text = "false" -> Returned(JBool(FALSE))
      [] text = "true" -> Returned(JBool(TRUE))
      [] OTHER -> Thrown(SyntaxErrorMsg)

(***************************************************************************)
(* Archives: what JSZip.loadAsync yields for a File.  zip.files maps each  *)
(* entry's path to a ZipObject; JSZip sets dir exactly on the entries      *)
(* whose path ends with "/".                                               *)
(***************************************************************************)
Entry(path, text) ==
    [path |-> path, dir |-> (path # <<>> /\ path[Len(path)] = "/"), text |-> text]

TextA == "[{\"uuid\":\"A\"}]"
TextB == "[{\"uuid\":\"B\"}]"
TextBad == "{bad"

PathUsersDeep == <<"E", "x", "p", "o", "r", "t", "/", "U", "S", "E", "R", "S", ".", "J", "S", "O", "N">>
PathConversationsDeep ==
    <<"a", "/", "b", "/", "C", "o", "n", "v", "e", "r", "s", "a", "t", "i", "o", "n", "s", ".", "J", "s", "o", "n">>
PathOther == <<"m", "y">> \o UsersJson
PathDir == UsersJson \o <<"/">>

ZipName == <<"a", ".", "z", "i", "p">>
TxtName == <<"a", ".", "t", "x", "t">>

ZipOf(files) == [readable |-> TRUE, files |-> files]
Unreadable == [readable |-> FALSE, files |-> <<>>]
File(name, zip) == [name |-> name, zip |-> zip]

\* The entries the generated archives are made of.
Entries ==
    {Entry(UsersJson, t) : t \in {TextA, "[]", "{}", "null", TextBad}}
    \cup {Entry(PathUsersDeep, TextB)}
    \cup {Entry(ConversationsJson, t) : t \in {TextA, "0", "\"x\"", "false"}}
    \cup {Entry(PathConversationsDeep, TextB)}
    \cup {Entry(ProjectsJson, t) : t \in {TextA, "{}", "null", TextBad}}
    \cup {Entry(PathOther, TextBad), Entry(PathDir, "")}

\* zip.files is keyed by path: no two entries of an archive share a path.
PathsDistinct(fs) == \A i, j \in 1..Len(fs) : fs[i].path = fs[j].path => i = j

Archives == {fs \in UNION {[1..n -> Entries] : n \in 0..MaxEntries} : PathsDistinct(fs)}

\* The files of the sequential specification: every archive of at most MaxEntries entries.
GeneratedFiles == {File(ZipName, ZipOf(fs)) : fs \in Archives} \cup {File(ZipName, Unreadable)}

FileA ==
    File(ZipName, ZipOf(<<Entry(UsersJson, TextA), Entry(ConversationsJson, TextA),
                          Entry(ProjectsJson, TextA)>>))
FileB == File(ZipName, ZipOf(<<Entry(PathUsersDeep, TextB), Entry(PathConversationsDeep, TextB)>>))
FileUnreadable == File(ZipName, Unreadable)
FileBadJson == File(ZipName, ZipOf(<<Entry(UsersJson, TextBad), Entry(ConversationsJson, TextA)>>))
FileMissing == File(ZipName, ZipOf(<<Entry(UsersJson, TextA)>>))
FileNotArray == File(ZipName, ZipOf(<<Entry(UsersJson, "{}"), Entry(ConversationsJson, TextA)>>))
FileTxt == File(TxtName, Unreadable)

\* The files of the concurrent specification.
DroppedFiles ==
    {FileA, FileB, FileUnreadable, FileBadJson, FileMissing, FileNotArray, FileTxt}

(***************************************************************************)
(* processZipFile, App.tsx:846-893: the pure parts.                        *)
(***************************************************************************)
\* Mutant of FileNameOf: the basename compared without toLowerCase().
FileNameCaseSensitive(entry) == SplitPop(entry.path)

\* App.tsx:859
FileNameOf(entry) == ToLowerCase(SplitPop(entry.path))

\* App.tsx:858-867: the entry reaches one of the three branches
Matched(entry) ==
    /\ ~entry.dir
    /\ FileNameOf(entry) \in {UsersJson, ConversationsJson, ProjectsJson}

\* The first entry at index >= from whose content the loop awaits; 0 when none is left.
NextMatch(files, from) ==
    LET S == {j \in from..Len(files) : Matched(files[j])}
    IN  IF S = {} THEN 0 ELSE MinOf(S)

\* App.tsx:853-855
InitialLocals == [usersData |-> JNull, conversationsData |-> JNull, projectsData |-> JArr(<<>>)]

\* App.tsx:861-867: the assignment of a parsed value
Assign(locals, entry, value) ==
    IF FileNameOf(entry) = UsersJson THEN [locals EXCEPT !.usersData = value]
    ELSE IF FileNameOf(entry) = ConversationsJson THEN [locals EXCEPT !.conversationsData = value]
    ELSE IF FileNameOf(entry) = ProjectsJson THEN [locals EXCEPT !.projectsData = value]
    ELSE locals

Loaded(u, c, p) == [ok |-> TRUE, message |-> "", users |-> u, conversations |-> c, projects |-> p]
Failed(m) == [ok |-> FALSE, message |-> m, users |-> <<>>, conversations |-> <<>>, projects |-> <<>>]

\* Mutant of ProjectsOrEmpty: the parsed value kept without the Array.isArray check.
ProjectsUnchecked(projectsData) == IF IsArray(projectsData) THEN projectsData.v ELSE <<projectsData>>

\* App.tsx:878-880
ProjectsOrEmpty(projectsData) == IF IsArray(projectsData) THEN projectsData.v ELSE <<>>

\* Mutant of Validate: the presence check fails only when both files are missing (&& for ||).
ValidateBothMissing(locals) ==
    IF ~Truthy(locals.usersData) /\ ~Truthy(locals.conversationsData)
    THEN Failed(MustContainMsg)
    ELSE IF ~IsArray(locals.usersData) \/ ~IsArray(locals.conversationsData)
    THEN Failed(MustBeArraysMsg)
    ELSE Loaded(locals.usersData.v, locals.conversationsData.v,
                ProjectsOrEmpty(locals.projectsData))

\* Mutant of Validate: Array.isArray is applied to usersData only.
ValidateUsersOnly(locals) ==
    IF ~Truthy(locals.usersData) \/ ~Truthy(locals.conversationsData)
    THEN Failed(MustContainMsg)
    ELSE IF ~IsArray(locals.usersData)
    THEN Failed(MustBeArraysMsg)
    ELSE Loaded(locals.usersData.v,
                IF IsArray(locals.conversationsData) THEN locals.conversationsData.v ELSE <<>>,
                ProjectsOrEmpty(locals.projectsData))

\* App.tsx:870-885: the checks after the scan
Validate(locals) ==
    IF ~Truthy(locals.usersData) \/ ~Truthy(locals.conversationsData)
    THEN Failed(MustContainMsg)
    ELSE IF ~IsArray(locals.usersData) \/ ~IsArray(locals.conversationsData)
    THEN Failed(MustBeArraysMsg)
    ELSE Loaded(locals.usersData.v, locals.conversationsData.v,
                ProjectsOrEmpty(locals.projectsData))

\* App.tsx:857-885 run from entry `from` on, without the suspensions
RECURSIVE ScanFrom(_, _, _)
ScanFrom(files, from, locals) ==
    LET j == NextMatch(files, from)
    IN  IF j = 0 THEN Validate(locals)
        ELSE LET r == JSONParse(files[j].text)
             IN  IF ~r.ok THEN Failed(r.message)
                 ELSE ScanFrom(files, j + 1, Assign(locals, files[j], r.value))

\* The outcome of processZipFile(file)
RunLoad(file) ==
    IF ~file.zip.readable THEN Failed(LoadAsyncMsg)
    ELSE ScanFrom(file.zip.files, 1, InitialLocals)

(***************************************************************************)
(* The App component: initial state and handlers.                          *)
(***************************************************************************)
NoAttempt == [settled |-> FALSE]
NotRendered == [rendered |-> FALSE]

Init ==
    /\ users = <<>>
    /\ conversations = <<>>
    /\ projects = <<>>
    /\ dataLoaded = FALSE
    /\ loading = FALSE
    /\ error = Null
    /\ selectedConvId = Null
    /\ attempts = <<>>
    /\ last = NoAttempt
    /\ view = NotRendered

\* What the loaded state held when an attempt started (history, kept with the attempt).
Snapshot == [users |-> users, conversations |-> conversations, projects |-> projects,
             dataLoaded |-> dataLoaded]

\* A name no suspended call has (history).
FreeId == MinOf({x \in 1..MaxInFlight : \A k \in 1..Len(attempts) : attempts[k].id # x})

\* processZipFile up to its first await, App.tsx:846-851
ProcessZipFile(file) ==
    /\ Len(attempts) < MaxInFlight
    /\ loading' = TRUE
    /\ error' = Null
    /\ attempts' = Append(attempts, [file |-> file, pc |-> "loadAsync", i |-> 0,
                                     locals |-> InitialLocals, snap |-> Snapshot,
                                     id |-> FreeId, overtaken |-> FALSE, reset |-> FALSE])
    /\ last' = NoAttempt
    /\ UNCHANGED <<users, conversations, projects, dataLoaded, selectedConvId, view>>

\* App.tsx:895-898; the input is rendered on the upload screen while not loading (957, 974-989)
HandleFileChange(file) ==
    /\ ~dataLoaded
    /\ ~loading
    /\ ProcessZipFile(file)

\* App.tsx:907-917; the drop zone is rendered on the upload screen (957, 967-973)
HandleDrop(file) ==
    /\ ~dataLoaded
    /\ IF EndsWith(file.name, DotZip)
       THEN ProcessZipFile(file)
       ELSE /\ error' = PleaseDropMsg
            /\ last' = NoAttempt
            /\ UNCHANGED <<users, conversations, projects, dataLoaded, loading,
                           selectedConvId, attempts, view>>

\* The calls still suspended when call k settles; a success overtakes the calls
\* started before it (history).
Remaining(k, res) ==
    [j \in 1..(Len(attempts) - 1) |->
        IF j < k THEN [attempts[j] EXCEPT !.overtaken = @ \/ res.ok]
        ELSE attempts[j + 1]]

\* What `last` records of call k settling with outcome res (history).
Settled(k, res) ==
    [settled |-> TRUE, file |-> attempts[k].file, res |-> res,
     snap |-> attempts[k].snap, before |-> Snapshot,
     id |-> attempts[k].id, overtaken |-> attempts[k].overtaken, reset |-> attempts[k].reset]

\* Mutant of Settle: the catch branch also empties the collections.
SettleClearsOnFailure(k, res) ==
    /\ attempts' = Remaining(k, res)
    /\ IF res.ok
       THEN /\ users' = res.users
            /\ conversations' = res.conversations
            /\ projects' = res.projects
            /\ dataLoaded' = TRUE
            /\ UNCHANGED error
       ELSE /\ error' = res.message
            /\ users' = <<>>
            /\ conversations' = <<>>
            /\ projects' = <<>>
            /\ UNCHANGED dataLoaded
    /\ loading' = FALSE
    /\ last' = Settled(k, res)
    /\ UNCHANGED <<selectedConvId, view>>

\* Mutant of Settle: setProjects is skipped when the archive has no projects.
SettleKeepsProjects(k, res) ==
    /\ attempts' = Remaining(k, res)
    /\ IF res.ok
       THEN /\ users' = res.users
            /\ conversations' = res.conversations
            /\ projects' = (IF res.projects = <<>> THEN projects ELSE res.projects)
            /\ dataLoaded' = TRUE
            /\ UNCHANGED error
       ELSE /\ error' = res.message
            /\ UNCHANGED <<users, conversations, projects, dataLoaded>>
    /\ loading' = FALSE
    /\ last' = Settled(k, res)
    /\ UNCHANGED <<selectedConvId, view>>

\* App.tsx:882-892: attempt k leaves the try statement with outcome res
Settle(k, res) ==
    /\ attempts' = Remaining(k, res)
    /\ IF res.ok
       THEN /\ users' = res.users
            /\ conversations' = res.conversations
            /\ projects' = res.projects
            /\ dataLoaded' = TRUE
            /\ UNCHANGED error
       ELSE /\ error' = res.message
            /\ UNCHANGED <<users, conversations, projects, dataLoaded>>
    /\ loading' = FALSE
    /\ last' = Settled(k, res)
    /\ UNCHANGED <<selectedConvId, view>>

\* Mutant of Advance: a failed check after the scan reads the archive again.
AdvanceWithRetry(k, locals, from) ==
    \E j \in {NextMatch(attempts[k].file.zip.files, from)} :
        IF j # 0
        THEN /\ attempts' = [attempts EXCEPT ![k].pc = "async", ![k].i = j,
                                             ![k].locals = locals]
             /\ last' = NoAttempt
             /\ UNCHANGED <<users, conversations, projects, dataLoaded, loading, error,
                            selectedConvId, view>>
        ELSE IF Validate(locals).ok
        THEN \E res \in {Validate(locals)} : Settle(k, res)
        ELSE /\ attempts' = [attempts EXCEPT ![k].pc = "loadAsync", ![k].i = 0,
                                             ![k].locals = InitialLocals]
             /\ last' = NoAttempt
             /\ UNCHANGED <<users, conversations, projects, dataLoaded, loading, error,
                            selectedConvId, view>>

\* App.tsx:857-885: the loop runs on from entry `from` to the next await or to the end
Advance(k, locals, from) ==
    \E j \in {NextMatch(attempts[k].file.zip.files, from)} :
        IF j # 0
        THEN /\ attempts' = [attempts EXCEPT ![k].pc = "async", ![k].i = j,
                                             ![k].locals = locals]
             /\ last' = NoAttempt
             /\ UNCHANGED <<users, conversations, projects, dataLoaded, loading, error,
                            selectedConvId, view>>
        ELSE \E res \in {Validate(locals)} : Settle(k, res)

\* App.tsx:851: JSZip.loadAsync(file) settles
LoadAsyncSettles(k) ==
    /\ k \in 1..Len(attempts)
    /\ attempts[k].pc = "loadAsync"
    /\ IF ~attempts[k].file.zip.readable
       THEN Settle(k, Failed(LoadAsyncMsg))
       ELSE Advance(k, attempts[k].locals, 1)

\* App.tsx:862-866: zipEntry.async("string") settles, JSON.parse runs
EntryAsyncSettles(k) ==
    /\ k \in 1..Len(attempts)
    /\ attempts[k].pc = "async"
    /\ \E entry \in {attempts[k].file.zip.files[attempts[k].i]} :
         \E r \in {JSONParse(entry.text)} :
            IF ~r.ok
            THEN Settle(k, Failed(r.message))
            ELSE \E locals \in {Assign(attempts[k].locals, entry, r.value)} :
                    Advance(k, locals, attempts[k].i + 1)

\* App.tsx:1001-1004: the detail view replaces the dashboard
DetailShown ==
    /\ dataLoaded
    /\ selectedConvId # Null
    /\ \E n \in 1..Len(conversations) : conversations[n].uuid = selectedConvId

\* App.tsx:919-926; the button is rendered on the dashboard (1023)
HandleReset ==
    /\ dataLoaded
    /\ ~DetailShown
    /\ users' = <<>>
    /\ conversations' = <<>>
    /\ projects' = <<>>
    /\ dataLoaded' = FALSE
    /\ error' = Null
    /\ selectedConvId' = Null
    /\ attempts' = [j \in 1..Len(attempts) |->
                       [attempts[j] EXCEPT !.overtaken = FALSE, !.reset = TRUE]]
    /\ last' = NoAttempt
    /\ UNCHANGED <<loading, view>>

\* App.tsx:1055: onSelect={setSelectedConvId} with the uuid of a listed conversation
SelectConversation(n) ==
    /\ dataLoaded
    /\ ~DetailShown
    /\ n \in 1..Len(conversations)
    /\ selectedConvId' = conversations[n].uuid
    /\ last' = NoAttempt
    /\ UNCHANGED <<users, conversations, projects, dataLoaded, loading, error, attempts, view>>

\* App.tsx:1010: onBack
Back ==
    /\ DetailShown
    /\ selectedConvId' = Null
    /\ last' = NoAttempt
    /\ UNCHANGED <<users, conversations, projects, dataLoaded, loading, error, attempts, view>>

(***************************************************************************)
(* Spec: the App with overlapping load attempts over DroppedFiles.         *)
(***************************************************************************)
Next ==
    \/ \E f \in DroppedFiles : HandleFileChange(f)
    \/ \E f \in DroppedFiles : HandleDrop(f)
    \/ \E k \in 1..MaxInFlight : LoadAsyncSettles(k)
    \/ \E k \in 1..MaxInFlight : EntryAsyncSettles(k)
    \/ HandleReset
    \/ \E n \in 1..2 : SelectConversation(n)
    \/ Back

Spec == Init /\ [][Next]_vars

\* A suspended call is resumed once the promise it awaits settles: JSZip.loadAsync
\* and zipEntry.async are taken to settle.
Fairness ==
    \A k \in 1..MaxInFlight :
        WF_vars(LoadAsyncSettles(k)) /\ WF_vars(EntryAsyncSettles(k))

\* SpecLive: the App under Fairness, over an archive that loads and one that fails
\* after its entries were read.
FileNoProjects ==
    File(ZipName, ZipOf(<<Entry(UsersJson, TextA), Entry(ConversationsJson, TextA)>>))

LiveFiles == {FileNoProjects, FileMissing}

NextLive ==
    \/ \E f \in LiveFiles : HandleFileChange(f)
    \/ \E f \in LiveFiles : HandleDrop(f)
    \/ \E k \in 1..MaxInFlight : LoadAsyncSettles(k)
    \/ \E k \in 1..MaxInFlight : EntryAsyncSettles(k)
    \/ HandleReset

SpecLive == Init /\ [][NextLive]_vars /\ Fairness

(***************************************************************************)
(* SpecLoader: one load attempt at a time, started from the file input of  *)
(* a clean upload screen, over every generated archive.  (Loads after a    *)
(* failure and overlapping loads are the subject of Spec.)                 *)
(***************************************************************************)
NextLoader ==
    \/ (error = Null /\ ~dataLoaded /\ ~loading /\ \E f \in GeneratedFiles : HandleFileChange(f))
    \/ LoadAsyncSettles(1)
    \/ EntryAsyncSettles(1)
    \/ HandleReset

SpecLoader == Init /\ [][NextLoader]_vars

(***************************************************************************)
(* The aggregation functions, App.tsx:94-228.  A record of the loaded      *)
(* arrays may lack any field: reading a missing field yields undefined,    *)
(* and reading a property of undefined throws a TypeError.                 *)
(***************************************************************************)
Has(r, f) == f \in DOMAIN r

Ok(v) == [ok |-> TRUE, value |-> v]
TypeError == [ok |-> FALSE, value |-> <<>>]

\* undefined, where a timestamp string is expected
Undefined == <<"undefined">>

RECURSIVE SumSeq(_)
SumSeq(s) == IF s = <<>> THEN 0 ELSE Head(s) + SumSeq(Tail(s))

RECURSIVE Flatten(_)
Flatten(ss) == IF ss = <<>> THEN <<>> ELSE Head(ss) \o Flatten(Tail(ss))

\* Mutant of SortDescBy: elements of equal key come out in reverse order.
SortDescByUnstable(s, key) ==
    LET pos(i) == 1 + Cardinality({j \in 1..Len(s) :
                        key[j] > key[i] \/ (key[j] = key[i] /\ j > i)})
    IN  [p \in 1..Len(s) |-> s[CHOOSE i \in 1..Len(s) : pos(i) = p]]

\* Array.prototype.sort with a comparator that orders by a numeric key, descending:
\* the sort is stable, elements of equal key keep their order.
SortDescBy(s, key) ==
    LET pos(i) == 1 + Cardinality({j \in 1..Len(s) :
                        key[j] > key[i] \/ (key[j] = key[i] /\ j < i)})
    IN  [p \in 1..Len(s) |-> s[CHOOSE i \in 1..Len(s) : pos(i) = p]]

NaN == -1

\* The comparator (a, b) => key(b) - key(a) returns NaN when either key is NaN, which
\* sort takes as +0 (equal).  It is a consistent comparator unless an element of NaN
\* key is equal to two elements whose keys differ.
ConsistentKeys(key) ==
    \/ \A i \in DOMAIN key : key[i] # NaN
    \/ \A i, j \in DOMAIN key : (key[i] # NaN /\ key[j] # NaN) => key[i] = key[j]

\* The arrays Array.prototype.sort may leave: the stable order under a consistent
\* comparator (the input order when every pair compares equal); with an inconsistent
\* comparator the order is implementation-defined, any arrangement of the elements.
SortOutcomes(s, key) ==
    IF \A i \in DOMAIN key : key[i] # NaN THEN {SortDescBy(s, key)}
    ELSE IF ConsistentKeys(key) THEN {s}
    ELSE {[p \in 1..Len(s) |-> s[f[p]]] : f \in Permutations(1..Len(s))}

\* m.text?.length || 0
TextLength(m) == IF Has(m, "text") THEN Len(m.text) ELSE 0

\* msg.content ?? []
ContentOf(m) == IF Has(m, "content") THEN m.content ELSE <<>>

SenderIs(m, who) == Has(m, "sender") /\ m.sender = who

\* c.type === "thinking"
IsThinking(c) == Has(c, "type") /\ c.type = "thinking"

\* c.type === "tool_use" && c.name
IsNamedToolUse(c) == Has(c, "type") /\ c.type = "tool_use" /\ Has(c, "name") /\ c.name # ""

\* App.tsx:115-124, 194-204: the tallies over the content blocks of the messages
BlocksOf(messages) == Flatten([i \in 1..Len(messages) |-> ContentOf(messages[i])])

ThinkingCount(messages) ==
    LET blocks == BlocksOf(messages)
    IN  Cardinality({i \in 1..Len(blocks) : IsThinking(blocks[i])})

RECURSIVE Ones(_)
Ones(k) == IF k = 0 THEN "" ELSE "1" \o Ones(k - 1)

\* counts[name] after k evaluations of counts[name] = (counts[name] || 0) + 1 on
\* counts = {}.  For a name Object.prototype defines, the first read yields the
\* inherited value, which is truthy, and + 1 appends "1" to its text; of these names
\* the model has "constructor".
CountAfter(name, k) ==
    IF name = "constructor"
    THEN JStr("function Object() { [native code] }" \o Ones(k))
    ELSE JNum(k)

ToolCounts(messages) ==
    LET blocks == BlocksOf(messages)
        uses == {i \in 1..Len(blocks) : IsNamedToolUse(blocks[i])}
    IN  [n \in {blocks[i].name : i \in uses} |->
            CountAfter(n, Cardinality({i \in uses : blocks[i].name = n}))]

\* Mutant of RoundedAverage: the quotient truncated (Math.floor for Math.round).
RoundedAverageFloor(total, count) ==
    IF count > 0 THEN total \div count ELSE 0

\* Math.round(total / count) for non-negative integers, guarded as in App.tsx:141-148
RoundedAverage(total, count) ==
    IF count > 0 THEN (2 * total + count) \div (2 * count) ELSE 0

T0101a == <<"2", "0", "2", "4", "-", "0", "1", "-", "0", "1", "T", "1", "0", ":", "0", "0", ":", "0", "0", "Z">>
T0101b == <<"2", "0", "2", "4", "-", "0", "1", "-", "0", "1", "T", "2", "3", ":", "5", "9", ":", "5", "9", "Z">>
T0102 == <<"2", "0", "2", "4", "-", "0", "1", "-", "0", "2", "T", "0", "9", ":", "0", "0", ":", "0", "0", "Z">>

\* new Date(s).getTime(), in seconds, on the timestamps of the model; NaN for
\* undefined and for a string that is no date
GetTime(s) ==
    CASE s = T0101a -> 1704103200
      [] s = T0101b -> 1704153599
      [] s = T0102 -> 1704186000
      [] OTHER -> NaN

\* a > b on numbers: false when either is NaN
Greater(a, b) == a # NaN /\ b # NaN /\ a > b

UpdatedAt(c) == IF Has(c, "updated_at") THEN c.updated_at ELSE Undefined

\* App.tsx:126-131: reduce without an initial value, the first conversation first
RECURSIVE LatestOf(_, _)
LatestOf(latest, rest) ==
    IF rest = <<>> THEN latest
    ELSE LatestOf(IF Greater(GetTime(UpdatedAt(Head(rest))), GetTime(UpdatedAt(latest)))
                  THEN Head(rest) ELSE latest,
                  Tail(rest))

\* Mutant of MessagesOf: the messages of the user's first conversation only.
MessagesOfFirst(userConvs) ==
    IF userConvs = <<>> THEN <<>> ELSE Head(userConvs).chat_messages

\* App.tsx:102: userConvs.flatMap((c) => c.chat_messages)
MessagesOf(userConvs) == Flatten([i \in 1..Len(userConvs) |-> userConvs[i].chat_messages])

\* App.tsx:100-153: the entry of one user; the filter callback reads c.account.uuid
\* of every conversation, and the sender filters read m.sender of every element
\* flatMap produced (undefined for a conversation without chat_messages)
StatsOf(user, convs) ==
    IF \E i \in 1..Len(convs) : ~Has(convs[i], "account") THEN TypeError
    ELSE
    LET OfUser(c) == c.account.uuid = user.uuid
        userConvs == SelectSeq(convs, OfUser)
    IN  IF \E i \in 1..Len(userConvs) : ~Has(userConvs[i], "chat_messages") THEN TypeError
        ELSE
        LET allMessages == MessagesOf(userConvs)
            IsHuman(m) == SenderIs(m, "human")
            IsAssistant(m) == SenderIs(m, "assistant")
            humanMessages == SelectSeq(allMessages, IsHuman)
            assistantMessages == SelectSeq(allMessages, IsAssistant)
            totalHumanChars ==
                SumSeq([i \in 1..Len(humanMessages) |-> TextLength(humanMessages[i])])
            totalAssistantChars ==
                SumSeq([i \in 1..Len(assistantMessages) |-> TextLength(assistantMessages[i])])
        IN  Ok([user |-> user,
                conversationCount |-> Len(userConvs),
                messageCount |-> Len(allMessages),
                humanMessages |-> Len(humanMessages),
                assistantMessages |-> Len(assistantMessages),
                totalHumanChars |-> totalHumanChars,
                totalAssistantChars |-> totalAssistantChars,
                avgPromptLength |-> RoundedAverage(totalHumanChars, Len(humanMessages)),
                avgResponseLength |-> RoundedAverage(totalAssistantChars, Len(assistantMessages)),
                thinkingBlocks |-> ThinkingCount(allMessages),
                toolUses |-> ToolCounts(allMessages),
                lastActive |-> IF Len(userConvs) > 0
                               THEN UpdatedAt(LatestOf(Head(userConvs), Tail(userConvs)))
                               ELSE <<>>])

\* App.tsx:98-155
calculateStats(us, convs) ==
    LET each == [i \in 1..Len(us) |-> StatsOf(us[i], convs)]
    IN  IF \E i \in 1..Len(us) : ~each[i].ok THEN TypeError
        ELSE Ok(SortDescBy([i \in 1..Len(us) |-> each[i].value],
                           [i \in 1..Len(us) |-> each[i].value.conversationCount]))

\* App.tsx:944-947
totalMessagesOf(stats) ==
    IF ~stats.ok THEN TypeError
    ELSE Ok(SumSeq([i \in 1..Len(stats.value) |-> stats.value[i].messageCount]))

\* The collation rank of the characters of the timestamps (String.prototype.localeCompare:
\* punctuation before digits before letters)
CharRank ==
    [c \in {"-", ":", "0", "1", "2", "3", "4", "5", "6", "7", "8", "9", "T", "Z"} |->
        CASE c = "-" -> 1 [] c = ":" -> 2 [] c = "0" -> 3 [] c = "1" -> 4 [] c = "2" -> 5
          [] c = "3" -> 6 [] c = "4" -> 7 [] c = "5" -> 8 [] c = "6" -> 9 [] c = "7" -> 10
          [] c = "8" -> 11 [] c = "9" -> 12 [] c = "T" -> 13 [] c = "Z" -> 14]

\* Mutant of LocaleLess: the comparison reversed (b.localeCompare(a)).
LocaleGreater(a, b) ==
    \E n \in 1..(Len(a)) :
        /\ \A i \in 1..(n - 1) : i <= Len(b) /\ a[i] = b[i]
        /\ \/ Len(b) = n - 1
           \/ (n <= Len(b) /\ CharRank[b[n]] < CharRank[a[n]])

\* a.localeCompare(b) < 0
LocaleLess(a, b) ==
    \E n \in 1..(Len(b)) :
        /\ \A i \in 1..(n - 1) : i <= Len(a) /\ a[i] = b[i]
        /\ \/ Len(a) = n - 1
           \/ (n <= Len(a) /\ CharRank[a[n]] < CharRank[b[n]])

\* s.slice(0, 10)
Slice10(s) == SubSeq(s, 1, IF Len(s) < 10 THEN Len(s) ELSE 10)

\* App.tsx:157-168; conv.created_at.slice and conv.chat_messages.length are read
\* of every conversation
calculateDailyActivity(convs) ==
    IF \E i \in 1..Len(convs) : ~Has(convs[i], "created_at") \/ ~Has(convs[i], "chat_messages")
    THEN TypeError
    ELSE
    LET dayOf(i) == Slice10(convs[i].created_at)
        days == {dayOf(i) : i \in 1..Len(convs)}
        entry(d) ==
            [date |-> d,
             conversations |-> Cardinality({i \in 1..Len(convs) : dayOf(i) = d}),
             messages |-> SumSeq([i \in 1..Len(convs) |->
                                    IF dayOf(i) = d THEN Len(convs[i].chat_messages) ELSE 0])]
        pos(d) == 1 + Cardinality({e \in days : LocaleLess(e, d)})
    IN  Ok([p \in 1..Cardinality(days) |-> entry(CHOOSE d \in days : pos(d) = p)])

\* The keys of the model that are canonical array indices: Object.entries lists such
\* keys first, in ascending numeric order, and the others in insertion order.
IndexKey(n) == CASE n = "0" -> 0 [] n = "1" -> 1 [] n = "2" -> 2 [] OTHER -> NaN

\* Object.entries(counts) for counts filled in the order `names` (first insertions)
RECURSIVE FirstOccurrences(_, _)
FirstOccurrences(names, seen) ==
    IF names = <<>> THEN <<>>
    ELSE IF Head(names) \in seen THEN FirstOccurrences(Tail(names), seen)
    ELSE <<Head(names)>> \o FirstOccurrences(Tail(names), seen \cup {Head(names)})

KeyOrder(names) ==
    LET first == FirstOccurrences(names, {})
        IsIndex(n) == IndexKey(n) # NaN
        IsOther(n) == IndexKey(n) = NaN
        idx == SelectSeq(first, IsIndex)
        asc == [p \in 1..Len(idx) |->
                  CHOOSE n \in {idx[i] : i \in 1..Len(idx)} :
                     Cardinality({m \in {idx[i] : i \in 1..Len(idx)} : IndexKey(m) < IndexKey(n)}) = p - 1]
    IN  asc \o SelectSeq(first, IsOther)

\* The operand of b.count - a.count as a number: a text that is no numeral is NaN
ToNumber(x) == IF x.t = "number" THEN x.v ELSE NaN

\* App.tsx:170-184; for (const msg of conv.chat_messages) reads every conversation.
\* The set of the arrays the call may return.
calculateToolUsage(convs) ==
    IF \E i \in 1..Len(convs) : ~Has(convs[i], "chat_messages") THEN {TypeError}
    ELSE
    LET messages == Flatten([i \in 1..Len(convs) |-> convs[i].chat_messages])
        blocks == BlocksOf(messages)
        IsUse(c) == IsNamedToolUse(c)
        uses == SelectSeq(blocks, IsUse)
        keys == KeyOrder([i \in 1..Len(uses) |-> uses[i].name])
        counts == ToolCounts(messages)
        entries == [i \in 1..Len(keys) |-> [name |-> keys[i], count |-> counts[keys[i]]]]
    IN  {Ok(sorted) : sorted \in SortOutcomes(entries,
                                    [i \in 1..Len(keys) |-> ToNumber(entries[i].count)])}

\* Mutant of getUserName: the last user with the uuid (findLast for find).
getUserNameLast(us, uuid) ==
    LET found == {i \in 1..Len(us) : Has(us[i], "uuid") /\ us[i].uuid = uuid}
    IN  IF found = {} THEN "Unknown"
        ELSE IF Has(us[MaxOf(found)], "full_name") THEN us[MaxOf(found)].full_name
        ELSE "Unknown"

\* App.tsx:94-96
getUserName(us, uuid) ==
    LET found == {i \in 1..Len(us) : Has(us[i], "uuid") /\ us[i].uuid = uuid}
    IN  IF found = {} THEN "Unknown"
        ELSE IF Has(us[MinOf(found)], "full_name") THEN us[MinOf(found)].full_name
        ELSE "Unknown"

\* App.tsx:191-223: the entry of one conversation
DetailOf(conv, us) ==
    IF ~Has(conv, "chat_messages") \/ ~Has(conv, "account") THEN TypeError
    ELSE
    LET IsHuman(m) == SenderIs(m, "human")
        IsAssistant(m) == SenderIs(m, "assistant")
        humanMsgs == SelectSeq(conv.chat_messages, IsHuman)
        assistantMsgs == SelectSeq(conv.chat_messages, IsAssistant)
        thinkingBlocks == ThinkingCount(conv.chat_messages)
    IN  Ok([uuid |-> IF Has(conv, "uuid") THEN conv.uuid ELSE "undefined",
            name |-> IF Has(conv, "name") /\ conv.name # "" THEN conv.name ELSE "Untitled",
            userName |-> getUserName(us, conv.account.uuid),
            created_at |-> IF Has(conv, "created_at") THEN conv.created_at ELSE Undefined,
            messageCount |-> Len(conv.chat_messages),
            humanMessages |-> Len(humanMsgs),
            assistantMessages |-> Len(assistantMsgs),
            humanChars |-> SumSeq([i \in 1..Len(humanMsgs) |-> TextLength(humanMsgs[i])]),
            assistantChars |->
                SumSeq([i \in 1..Len(assistantMsgs) |-> TextLength(assistantMsgs[i])]),
            thinkingBlocks |-> thinkingBlocks,
            toolsUsed |-> ToolCounts(conv.chat_messages),
            hasThinking |-> thinkingBlocks > 0])

\* Mutant of calculateConversationDetails: the entries in input order (no sort).
calculateConversationDetailsUnsorted(convs, us) ==
    LET each == [i \in 1..Len(convs) |-> DetailOf(convs[i], us)]
    IN  IF \E i \in 1..Len(convs) : ~each[i].ok THEN {TypeError}
        ELSE {Ok([i \in 1..Len(convs) |-> each[i].value])}

\* App.tsx:186-228.  The comparator is the difference of the two times, NaN with a
\* created_at that is no date.  The set of the arrays the call may return.
calculateConversationDetails(convs, us) ==
    LET each == [i \in 1..Len(convs) |-> DetailOf(convs[i], us)]
    IN  IF \E i \in 1..Len(convs) : ~each[i].ok THEN {TypeError}
        ELSE {Ok(sorted) : sorted \in
                SortOutcomes([i \in 1..Len(convs) |-> each[i].value],
                             [i \in 1..Len(convs) |-> GetTime(each[i].value.created_at)])}

(***************************************************************************)
(* SpecAgg: the dashboard rendered over loaded arrays drawn from bounded   *)
(* sets of records, well-formed (types of part_000) and with fields        *)
(* missing.                                                                *)
(***************************************************************************)
UserAnn == [uuid |-> "u1", full_name |-> "Ann"]
UserBob == [uuid |-> "u2", full_name |-> "Bob"]
UserBobby == [uuid |-> "u2", full_name |-> "Bobby"]

MsgHuman ==
    [uuid |-> "m1", sender |-> "human", text |-> "hello",
     content |-> <<[type |-> "text", text |-> "hello"]>>]
MsgAssistant ==
    [uuid |-> "m2", sender |-> "assistant", text |-> "hi Ann!",
     content |-> <<[type |-> "thinking"], [type |-> "tool_use", name |-> "web_search"]>>]
MsgBare == [uuid |-> "m3", sender |-> "assistant"]
MsgShort == [uuid |-> "m4", sender |-> "human", text |-> "hey"]

MessageLists == {<<>>, <<MsgHuman>>, <<MsgHuman, MsgAssistant>>, <<MsgHuman, MsgBare>>}

\* "u9" is the uuid of no user
AccountUuids == {"u1", "u2", "u9"}

Conversation(acc, msgs) ==
    [uuid |-> "c1", name |-> "Chat", created_at |-> T0101a, updated_at |-> T0102,
     account |-> [uuid |-> acc], chat_messages |-> msgs]

WellFormedConversations ==
    {Conversation(acc, msgs) : acc \in AccountUuids, msgs \in MessageLists}

ConvNoAccount ==
    [uuid |-> "c2", name |-> "Chat", created_at |-> T0101a, updated_at |-> T0102,
     chat_messages |-> <<MsgHuman>>]
ConvNoMessages ==
    [uuid |-> "c3", name |-> "Chat", created_at |-> T0101a, updated_at |-> T0102,
     account |-> [uuid |-> "u1"]]
ConvNoCreatedAt ==
    [uuid |-> "c4", name |-> "Chat", updated_at |-> T0102,
     account |-> [uuid |-> "u1"], chat_messages |-> <<>>]
ConvNoNameNoUpdatedAt ==
    [uuid |-> "c5", created_at |-> T0101b,
     account |-> [uuid |-> "u1"], chat_messages |-> <<MsgHuman>>]

\* A conversation of the next day with an empty name and two human messages.
ConvLater ==
    [uuid |-> "c6", name |-> "", created_at |-> T0102, updated_at |-> T0101a,
     account |-> [uuid |-> "u1"], chat_messages |-> <<MsgHuman, MsgShort>>]

AggregatedConversations ==
    WellFormedConversations
    \cup {ConvNoAccount, ConvNoMessages, ConvNoCreatedAt, ConvNoNameNoUpdatedAt, ConvLater}

\* Conversations of different days and times of day, with tool uses.
MsgTools ==
    [uuid |-> "m5", sender |-> "assistant", text |-> "",
     content |-> <<[type |-> "tool_use", name |-> "web_search"],
                   [type |-> "tool_use", name |-> "1"],
                   [type |-> "tool_use"]>>]
MsgConstructor ==
    [uuid |-> "m6", sender |-> "assistant", text |-> "ok",
     content |-> <<[type |-> "tool_use", name |-> "constructor"]>>]

Dated(id, at, msgs) ==
    [uuid |-> id, name |-> "Chat", created_at |-> at, updated_at |-> at,
     account |-> [uuid |-> "u2"], chat_messages |-> msgs]

\* The last has a created_at that is no date: the empty string.
DatedConversations ==
    {Dated("d1", T0101a, <<MsgHuman>>),
     Dated("d2", T0101b, <<MsgHuman, MsgTools>>),
     Dated("d3", T0102, <<MsgConstructor>>),
     Dated("d4", <<>>, <<MsgAssistant>>)}

SeqsUpTo(S, n) == UNION {[1..k -> S] : k \in 0..n}

InitAgg ==
    /\ \/ /\ users \in SeqsUpTo({UserAnn, UserBob}, MaxUsers)
          /\ conversations \in SeqsUpTo(AggregatedConversations, MaxConversations)
       \/ /\ users \in {<<UserAnn, UserBob>>, <<UserBobby, UserBob>>}
          /\ conversations \in SeqsUpTo(DatedConversations, MaxDated)
    /\ projects = <<>>
    /\ dataLoaded = TRUE
    /\ loading = FALSE
    /\ error = Null
    /\ selectedConvId = Null
    /\ attempts = <<>>
    /\ last = NoAttempt
    /\ view = NotRendered

\* App.tsx:928-947: the render of the dashboard evaluates the useMemo hooks
Render ==
    /\ dataLoaded
    /\ ~view.rendered
    /\ \E usage \in calculateToolUsage(conversations),
          details \in calculateConversationDetails(conversations, users) :
            view' = [rendered |-> TRUE,
                     stats |-> calculateStats(users, conversations),
                     dailyActivity |-> calculateDailyActivity(conversations),
                     toolUsage |-> usage,
                     convDetails |-> details,
                     totalMessages |-> totalMessagesOf(calculateStats(users, conversations))]
    /\ UNCHANGED <<users, conversations, projects, dataLoaded, loading, error,
                   selectedConvId, attempts, last>>

NextAgg == Render

SpecAgg == InitAgg /\ [][NextAgg]_vars

(***************************************************************************)
(* Properties of the aggregation.                                          *)
(***************************************************************************)
\* C8 as stated: on every loaded users and conversations array, records with
\* missing fields included, the four aggregation functions return a list.
C8_NeverRaises ==
    view.rendered
        => /\ view.stats.ok
           /\ view.dailyActivity.ok
           /\ view.toolUsage.ok
           /\ view.convDetails.ok

AllHaveMessages == \A i \in 1..Len(conversations) : Has(conversations[i], "chat_messages")

\* Every conversation's account uuid is the uuid of some user.
AllResolve ==
    \A i \in 1..Len(conversations) :
        /\ Has(conversations[i], "account")
        /\ \E j \in 1..Len(users) : users[j].uuid = conversations[i].account.uuid

UuidsDistinct == \A i, j \in 1..Len(users) : users[i].uuid = users[j].uuid => i = j

\* The number of messages across all conversations.
MessagesLoaded == SumSeq([i \in 1..Len(conversations) |-> Len(conversations[i].chat_messages)])

SumOfMessageCount ==
    SumSeq([i \in 1..Len(view.stats.value) |-> view.stats.value[i].messageCount])

\* C9 as stated: when every conversation's account uuid is the uuid of some user,
\* the messageCount entries of calculateStats sum to the number of messages.
C9_SumLaw ==
    (view.rendered /\ AllHaveMessages /\ AllResolve)
        => /\ view.stats.ok
           /\ SumOfMessageCount = MessagesLoaded

\* C9, amended: the same, for users whose uuids are pairwise distinct.
C9_SumLawDistinctUsers ==
    (view.rendered /\ AllHaveMessages /\ AllResolve /\ UuidsDistinct)
        => /\ view.stats.ok
           /\ SumOfMessageCount = MessagesLoaded

\* Two users with a conversation each, messages in both, have been aggregated.
C9_Witness ==
    /\ view.rendered
    /\ AllHaveMessages /\ AllResolve /\ UuidsDistinct
    /\ Len(users) = 2
    /\ Len(conversations) = 2
    /\ conversations[1].account.uuid # conversations[2].account.uuid
    /\ \A i \in 1..2 : Len(conversations[i].chat_messages) > 0
    /\ view.stats.ok
    /\ SumOfMessageCount = MessagesLoaded

\* C10 as stated: on a dashboard that rendered, totalMessages is the number of
\* messages of the loaded conversations, each counted once, whether or not the
\* conversation's account is the uuid of a user.
C10_GlobalTotal ==
    (/\ view.rendered
     /\ view.stats.ok /\ view.dailyActivity.ok /\ view.toolUsage.ok /\ view.convDetails.ok)
        => /\ view.totalMessages.ok
           /\ view.totalMessages.value = MessagesLoaded

\* n is x rounded to the nearest integer, halves upwards, for x = total / count.
IsRounded(n, total, count) ==
    /\ 2 * n * count - count <= 2 * total
    /\ 2 * total < 2 * n * count + count

AverageLaw(avg, total, count) ==
    /\ avg \in Nat
    /\ IF count > 0 THEN IsRounded(avg, total, count) ELSE avg = 0

\* C11: in every entry calculateStats returns, avgPromptLength is
\* totalHumanChars / humanMessages rounded to the nearest integer when
\* humanMessages > 0 and 0 otherwise, avgResponseLength is the same over the
\* assistant messages, and both are non-negative integers.
C11_AverageLaw ==
    (view.rendered /\ view.stats.ok)
        => \A i \in 1..Len(view.stats.value) :
             LET e == view.stats.value[i]
             IN  /\ AverageLaw(e.avgPromptLength, e.totalHumanChars, e.humanMessages)
                 /\ AverageLaw(e.avgResponseLength, e.totalAssistantChars, e.assistantMessages)

\* The statistics hold an average that was rounded down (13 / 3), next to an entry
\* without messages whose averages are 0.
C11_Witness ==
    /\ view.rendered
    /\ view.stats.ok
    /\ \E i \in 1..Len(view.stats.value) :
         LET e == view.stats.value[i]
         IN  /\ e.humanMessages = 3
             /\ e.totalHumanChars = 13
             /\ e.avgPromptLength = 4
    /\ \E i \in 1..Len(view.stats.value) :
         LET e == view.stats.value[i]
         IN  /\ e.humanMessages = 0 /\ e.assistantMessages = 0
             /\ e.avgPromptLength = 0 /\ e.avgResponseLength = 0

\* The statistics hold an average that was rounded up from a half (7 / 2).
C11_WitnessHalfUp ==
    /\ view.rendered
    /\ view.stats.ok
    /\ \E i \in 1..Len(view.stats.value) :
         LET e == view.stats.value[i]
         IN  /\ e.assistantMessages = 2
             /\ e.totalAssistantChars = 7
             /\ e.avgResponseLength = 4

\* The number of conversations whose account uuid is the user's.
ConversationsOf(user) ==
    Cardinality({i \in 1..Len(conversations) : conversations[i].account.uuid = user.uuid})

\* C12: calculateStats returns one entry per input user (the users rearranged by a
\* permutation p), in descending order of conversationCount, and entries of equal
\* conversationCount are in the order their users have in the input.
C12_OnePerUserSortedStable ==
    (view.rendered /\ view.stats.ok)
        => LET st == view.stats.value
               n == Len(users)
           IN  /\ Len(st) = n
               /\ \E p \in Permutations(1..n) :
                    /\ \A k \in 1..n :
                         /\ st[k].user = users[p[k]]
                         /\ st[k].conversationCount = ConversationsOf(users[p[k]])
                    /\ \A k, l \in 1..n :
                         k < l => /\ st[k].conversationCount >= st[l].conversationCount
                                  /\ st[k].conversationCount = st[l].conversationCount
                                        => p[k] < p[l]

\* The second user, with more conversations than the first, has been moved ahead.
C12_Witness ==
    /\ view.rendered
    /\ view.stats.ok
    /\ Len(users) = 2
    /\ users[1] # users[2]
    /\ view.stats.value[1].user = users[2]
    /\ view.stats.value[1].conversationCount > view.stats.value[2].conversationCount

\* Two different users with one conversation each have kept their order.
C12_WitnessTie ==
    /\ view.rendered
    /\ view.stats.ok
    /\ Len(users) = 2
    /\ users[1] # users[2]
    /\ view.stats.value[1].user = users[1]
    /\ view.stats.value[1].conversationCount = 1
    /\ view.stats.value[2].conversationCount = 1

\* The UTF-16 code units of the characters of the timestamps.
CodeUnit ==
    [c \in {"-", ":", "0", "1", "2", "3", "4", "5", "6", "7", "8", "9", "T", "Z"} |->
        CASE c = "-" -> 45 [] c = "0" -> 48 [] c = "1" -> 49 [] c = "2" -> 50
          [] c = "3" -> 51 [] c = "4" -> 52 [] c = "5" -> 53 [] c = "6" -> 54
          [] c = "7" -> 55 [] c = "8" -> 56 [] c = "9" -> 57 [] c = ":" -> 58
          [] c = "T" -> 84 [] c = "Z" -> 90]

\* a < b in lexical order (by code units, a proper prefix first)
LexLess(a, b) ==
    \E n \in 1..Len(b) :
        /\ n - 1 <= Len(a)
        /\ SubSeq(a, 1, n - 1) = SubSeq(b, 1, n - 1)
        /\ (Len(a) >= n => CodeUnit[a[n]] < CodeUnit[b[n]])

\* The first 10 characters of the conversation's created_at (all of a shorter one).
DateKey(c) == [i \in 1..(IF Len(c.created_at) < 10 THEN Len(c.created_at) ELSE 10) |->
                  c.created_at[i]]

DateKeys == {DateKey(conversations[i]) : i \in 1..Len(conversations)}

ScannedNames ==
    LET messages == Flatten([i \in 1..Len(conversations) |-> conversations[i].chat_messages])
        blocks == Flatten([i \in 1..Len(messages) |->
                             IF Has(messages[i], "content") THEN messages[i].content ELSE <<>>])
        Named(c) == Has(c, "type") /\ c.type = "tool_use" /\ Has(c, "name") /\ c.name # ""
        named == SelectSeq(blocks, Named)
    IN  [i \in 1..Len(named) |-> named[i].name]

FirstScanned(name) == MinOf({i \in 1..Len(ScannedNames) : ScannedNames[i] = name})

\* C14 as stated: calculateToolUsage returns one entry per distinct name of a
\* tool_use block, whose count is the number of the blocks of that name, in
\* descending order of count, entries of equal count in the order in which the
\* scan first met their names.
C14_ToolUsage ==
    (view.rendered /\ view.toolUsage.ok)
        => LET tu == view.toolUsage.value
               names == {ScannedNames[i] : i \in 1..Len(ScannedNames)}
           IN  /\ Len(tu) = Cardinality(names)
               /\ {tu[k].name : k \in 1..Len(tu)} = names
               /\ \A k \in 1..Len(tu) :
                    /\ tu[k].count.t = "number"
                    /\ tu[k].count.v =
                         Cardinality({i \in 1..Len(ScannedNames) : ScannedNames[i] = tu[k].name})
               /\ \A k, l \in 1..Len(tu) :
                    k < l => /\ tu[k].count.v >= tu[l].count.v
                             /\ tu[k].count.v = tu[l].count.v
                                   => FirstScanned(tu[k].name) < FirstScanned(tu[l].name)

\* What holds of calculateToolUsage: one entry per distinct name; for a name other
\* than "constructor" the count is the number of its blocks; when every count is a
\* number the entries are in descending order of count, and entries of equal count
\* whose names are no array indices are in the order the scan first met them.
ToolUsageAsComputed ==
    (view.rendered /\ view.toolUsage.ok)
        => LET tu == view.toolUsage.value
               names == {ScannedNames[i] : i \in 1..Len(ScannedNames)}
           IN  /\ Len(tu) = Cardinality(names)
               /\ {tu[k].name : k \in 1..Len(tu)} = names
               /\ \A k \in 1..Len(tu) :
                    tu[k].name # "constructor"
                        => /\ tu[k].count.t = "number"
                           /\ tu[k].count.v =
                                Cardinality({i \in 1..Len(ScannedNames) :
                                               ScannedNames[i] = tu[k].name})
               /\ ("constructor" \notin names)
                    => \A k, l \in 1..Len(tu) :
                         k < l => /\ tu[k].count.v >= tu[l].count.v
                                  /\ (/\ tu[k].count.v = tu[l].count.v
                                       /\ IndexKey(tu[k].name) = NaN
                                       /\ IndexKey(tu[l].name) = NaN)
                                        => FirstScanned(tu[k].name) < FirstScanned(tu[l].name)

\* The tool named "constructor", used once, has been listed with a count that is
\* no number.
ToolUsageNotANumber ==
    /\ view.rendered
    /\ view.toolUsage.ok
    /\ Len(conversations) = 1
    /\ view.toolUsage.value = <<[name |-> "constructor",
                                  count |-> JStr("function Object() { [native code] }1")]>>

\* The tool named "1", met after web_search and used as often, has been listed first.
ToolUsageIndexFirst ==
    /\ view.rendered
    /\ view.toolUsage.ok
    /\ ScannedNames = <<"web_search", "1">>
    /\ view.toolUsage.value = <<[name |-> "1", count |-> JNum(1)],
                                 [name |-> "web_search", count |-> JNum(1)]>>

\* The conversation's created_at is a date.
HasDate(c) == Has(c, "created_at") /\ GetTime(c.created_at) # NaN

\* The details are the entries of the conversations, one each, rearranged.
OnePerConversation ==
    LET cd == view.convDetails.value
        n == Len(conversations)
    IN  /\ Len(cd) = n
        /\ \E p \in Permutations(1..n) :
             \A k \in 1..n :
                /\ cd[k].uuid = conversations[p[k]].uuid
                /\ cd[k].messageCount = Len(conversations[p[k]].chat_messages)

\* No entry is of a later date than an entry before it.
MostRecentFirst ==
    LET cd == view.convDetails.value
    IN  \A k, l \in 1..Len(cd) :
            k < l => ~Greater(GetTime(cd[l].created_at), GetTime(cd[k].created_at))

\* C15 as stated: a call of calculateConversationDetails that returns gives one
\* entry per input conversation, the most recent first, and leaves the
\* conversations, with their messages, and the users as they were.
C15_DetailsSorted ==
    [][(view'.rendered /\ view'.convDetails.ok)
        => /\ OnePerConversation'
           /\ MostRecentFirst'
           /\ conversations' = conversations
           /\ users' = users]_vars

\* C15, amended: the same, with the order asserted of the calls in which every
\* conversation's created_at is a date.
C15_DetailsSortedWhenDated ==
    [][(view'.rendered /\ view'.convDetails.ok)
        => /\ OnePerConversation'
           /\ (\A i \in 1..Len(conversations) : HasDate(conversations[i]))
                => MostRecentFirst'
           /\ conversations' = conversations
           /\ users' = users]_vars

\* Three conversations given oldest first have been listed newest first.
C15_Witness ==
    /\ view.rendered
    /\ view.convDetails.ok
    /\ Len(conversations) = 3
    /\ \A i \in 1..3 : HasDate(conversations[i])
    /\ \A i \in 1..2 : Greater(GetTime(conversations[i + 1].created_at),
                                  GetTime(conversations[i].created_at))
    /\ \A i \in 1..3 : view.convDetails.value[i].uuid = conversations[4 - i].uuid

\* An older conversation has been listed before a newer one, with a conversation
\* whose created_at is no date between them.
DetailsOutOfOrder ==
    /\ view.rendered
    /\ view.convDetails.ok
    /\ Len(view.convDetails.value) = 3
    /\ view.convDetails.value[1].created_at = T0101a
    /\ view.convDetails.value[2].created_at = <<>>
    /\ view.convDetails.value[3].created_at = T0102
    /\ \A i \in 1..3 : view.convDetails.value[i].uuid = conversations[i].uuid

\* The positions of the users whose uuid is the conversation's account uuid.
UsersOfAccount(c) == {j \in 1..Len(users) : users[j].uuid = c.account.uuid}

\* The name and the user name the fallback laws give a conversation.
ExpectedName(c) == IF ~Has(c, "name") \/ c.name = "" THEN "Untitled" ELSE c.name

ExpectedUserName(c) ==
    IF UsersOfAccount(c) = {} THEN "Unknown"
    ELSE LET first == CHOOSE j \in UsersOfAccount(c) : \A m \in UsersOfAccount(c) : j <= m
         IN  users[first].full_name

\* C16: the detail of a conversation has the name "Untitled" when the
\* conversation's name is empty and the conversation's name otherwise, and the
\* userName "Unknown" when no user has the account uuid and the full_name of the
\* first user with that uuid otherwise; computing the details of conversations
\* that have an account and messages does not raise, whether or not the account
\* uuid is the uuid of a user.
C16_Fallbacks ==
    view.rendered
        => /\ (\A i \in 1..Len(conversations) :
                    Has(conversations[i], "account") /\ Has(conversations[i], "chat_messages"))
                => view.convDetails.ok
           /\ view.convDetails.ok
                => LET cd == view.convDetails.value
                       n == Len(conversations)
                   IN  /\ Len(cd) = n
                       /\ \E p \in Permutations(1..n) :
                            \A k \in 1..n :
                               /\ cd[k].uuid = conversations[p[k]].uuid
                               /\ cd[k].messageCount = Len(conversations[p[k]].chat_messages)
                               /\ cd[k].name = ExpectedName(conversations[p[k]])
                               /\ cd[k].userName = ExpectedUserName(conversations[p[k]])

\* A conversation with an empty name whose account is the uuid of no user has
\* been listed as "Untitled" of "Unknown", next to a named conversation of a user.
C16_Witness ==
    /\ view.rendered
    /\ view.convDetails.ok
    /\ \E i \in 1..Len(conversations) :
         /\ Has(conversations[i], "name") /\ conversations[i].name = ""
         /\ UsersOfAccount(conversations[i]) = {}
    /\ \E k \in 1..Len(view.convDetails.value) :
         /\ view.convDetails.value[k].name = "Untitled"
         /\ view.convDetails.value[k].userName = "Unknown"
    /\ \E k \in 1..Len(view.convDetails.value) :
         /\ view.convDetails.value[k].name = "Chat"
         /\ view.convDetails.value[k].userName = "Bob"

\* With two users of the same uuid, the conversation has the name of the first.
C16_WitnessFirstUser ==
    /\ view.rendered
    /\ view.convDetails.ok
    /\ users = <<UserBobby, UserBob>>
    /\ Len(conversations) > 0
    /\ \A k \in 1..Len(view.convDetails.value) : view.convDetails.value[k].userName = "Bobby"

(***************************************************************************)
(* Properties of the archive loader.                                       *)
(***************************************************************************)
RequiredNames == {UsersJson, ConversationsJson}
ExpectedNames == {UsersJson, ConversationsJson, ProjectsJson}

\* The entry is a file whose final path segment is `name`, ignoring case.
HasBasename(entry, name) ==
    /\ ~entry.dir
    /\ \/ ToLowerCase(entry.path) = name
       \/ \E n \in 1..Len(entry.path) :
            /\ entry.path[n] = "/"
            /\ ToLowerCase(SubSeq(entry.path, n + 1, Len(entry.path))) = name

EntriesNamed(file, name) ==
    {i \in 1..Len(file.zip.files) : HasBasename(file.zip.files[i], name)}

Present(file, name) == EntriesNamed(file, name) # {}

\* Every entry with that basename holds text JSON.parse accepts.
AllParse(file, name) ==
    \A i \in EntriesNamed(file, name) : JSONParse(file.zip.files[i].text).ok

\* The value of the file `name` of the archive: that of the last entry with the
\* basename (the only one when the basename occurs once); absent is `dflt`.
ValueOf(file, name, dflt) ==
    IF ~Present(file, name) THEN dflt
    ELSE JSONParse(file.zip.files[MaxOf(EntriesNamed(file, name))].text).value

ValidArray(file, name) ==
    /\ Present(file, name)
    /\ AllParse(file, name)
    /\ ValueOf(file, name, JNull).t = "array"

LoadedStateIs(snap) ==
    /\ users = snap.users
    /\ conversations = snap.conversations
    /\ projects = snap.projects
    /\ dataLoaded = snap.dataLoaded

LoadedStateEmpty ==
    users = <<>> /\ conversations = <<>> /\ projects = <<>> /\ ~dataLoaded

JustFailed == last.settled /\ ~last.res.ok
JustLoaded == last.settled /\ last.res.ok

\* C1 as stated: after an attempt failed, users, conversations, projects and
\* dataLoaded have the values they had before that attempt started.
C1_AsBeforeStart == JustFailed => LoadedStateIs(last.snap)

\* C1, amended: the loaded state (users, conversations, projects, dataLoaded)
\* changes only in the step in which an attempt succeeds and in a reset; the
\* start, the resumptions and the failure of an attempt leave it as it was.
C1_FailureFrame ==
    [][(<<users, conversations, projects, dataLoaded>>' # <<users, conversations, projects, dataLoaded>>)
        => \/ JustLoaded'
           \/ (dataLoaded /\ LoadedStateEmpty' /\ ~last'.settled)]_vars

\* An attempt has just failed (parse error, missing file or non-array file) while
\* the data of another attempt was loaded.
C1_Witness ==
    /\ JustFailed
    /\ dataLoaded
    /\ users # <<>>
    /\ last.res.message \in {SyntaxErrorMsg, MustContainMsg, MustBeArraysMsg}

\* C2: in every state the three collections are those of one archive's successful
\* load, or all three are empty with dataLoaded false.
C2_OneArchive ==
    \/ LoadedStateEmpty
    \/ /\ dataLoaded
       /\ \E f \in DroppedFiles :
            /\ RunLoad(f).ok
            /\ users = RunLoad(f).users
            /\ conversations = RunLoad(f).conversations
            /\ projects = RunLoad(f).projects

\* A successful load has just replaced the different data of an earlier one.
C2_Witness ==
    /\ JustLoaded
    /\ last.before.dataLoaded
    /\ users # last.before.users
    /\ projects # last.before.projects

MissingRequired(file) ==
    /\ file.zip.readable
    /\ \E name \in RequiredNames : ~Present(file, name)

\* C3 as stated: an archive without a users.json entry or without a
\* conversations.json entry fails with the message naming both files.
C3_NamesBoth ==
    (last.settled /\ MissingRequired(last.file))
        => /\ ~last.res.ok
           /\ error = MustContainMsg
           /\ dataLoaded = last.snap.dataLoaded

\* C3, amended: such an archive fails and dataLoaded keeps its value; the message
\* names both files when every entry named users.json, conversations.json or
\* projects.json parses, and is the parser's message otherwise.
C3_NamesBothIfParsed ==
    (last.settled /\ MissingRequired(last.file))
        => /\ ~last.res.ok
           /\ dataLoaded = last.snap.dataLoaded
           /\ error = (IF \A name \in ExpectedNames : AllParse(last.file, name)
                       THEN MustContainMsg ELSE SyntaxErrorMsg)

\* An archive with users.json and without conversations.json has just failed.
C3_Witness ==
    /\ last.settled
    /\ Present(last.file, UsersJson)
    /\ ~Present(last.file, ConversationsJson)
    /\ error = MustContainMsg

PresentNotArray(file, name) ==
    /\ Present(file, name)
    /\ JSONParse(file.zip.files[MaxOf(EntriesNamed(file, name))].text).ok
    /\ ValueOf(file, name, JNull).t # "array"

\* C4: when the value of users.json or of conversations.json is not an array the
\* load fails with an error and the loaded state is unchanged; a load succeeds
\* only when both values are arrays, which it then loads.
C4_RequiredArrays ==
    (last.settled /\ last.file.zip.readable)
        => /\ (\E name \in RequiredNames : PresentNotArray(last.file, name))
                => /\ ~last.res.ok
                   /\ error = last.res.message
                   /\ error \in {MustContainMsg, MustBeArraysMsg, SyntaxErrorMsg}
                   /\ LoadedStateIs(last.snap)
           /\ last.res.ok
                => /\ \A name \in RequiredNames :
                        Present(last.file, name) /\ ValueOf(last.file, name, JNull).t = "array"
                   /\ dataLoaded
                   /\ users = ValueOf(last.file, UsersJson, JNull).v
                   /\ conversations = ValueOf(last.file, ConversationsJson, JNull).v

\* A truthy non-array (a string) has just been refused as conversations.json, with
\* users.json an array.
C4_Witness ==
    /\ JustFailed
    /\ ValidArray(last.file, UsersJson)
    /\ PresentNotArray(last.file, ConversationsJson)
    /\ ValueOf(last.file, ConversationsJson, JNull).t = "string"
    /\ error = MustBeArraysMsg

\* An empty users array has just been accepted.
C4_WitnessEmptyArray ==
    /\ JustLoaded
    /\ ValueOf(last.file, UsersJson, JNull) = JArr(<<>>)
    /\ users = <<>>
    /\ dataLoaded

\* C5: with both required files valid arrays and projects.json absent or parsed
\* to a non-array, the load succeeds with an empty projects collection.
C5_ProjectsOptional ==
    (/\ last.settled
     /\ last.file.zip.readable
     /\ \A name \in RequiredNames : ValidArray(last.file, name)
     /\ ~Present(last.file, ProjectsJson) \/ PresentNotArray(last.file, ProjectsJson))
        => /\ last.res.ok
           /\ dataLoaded
           /\ projects = <<>>
           /\ users = ValueOf(last.file, UsersJson, JNull).v
           /\ conversations = ValueOf(last.file, ConversationsJson, JNull).v

\* An archive whose projects.json is the object {} has just been loaded.
C5_Witness ==
    /\ JustLoaded
    /\ PresentNotArray(last.file, ProjectsJson)
    /\ ValueOf(last.file, ProjectsJson, JNull) = JObj
    /\ projects = <<>>
    /\ users # <<>>

ProjectsMalformed(file) ==
    /\ Present(file, ProjectsJson)
    /\ ~AllParse(file, ProjectsJson)

\* C6 as stated: with both required files valid arrays, a projects.json that does
\* not parse leaves the load successful, with projects empty.
C6_MalformedProjectsNotFatal ==
    (/\ last.settled
     /\ last.file.zip.readable
     /\ \A name \in RequiredNames : ValidArray(last.file, name)
     /\ ProjectsMalformed(last.file))
        => /\ last.res.ok
           /\ dataLoaded
           /\ projects = <<>>

IsExpected(entry) == \E name \in ExpectedNames : HasBasename(entry, name)

\* The outcome the expected entries of the archive determine: the parser's error
\* when one of them does not parse, else the checks on the values of the files.
OutcomeOfExpected(file) ==
    LET sel == SelectSeq(file.zip.files, IsExpected)
        f == File(file.name, ZipOf(sel))
    IN  IF \E i \in 1..Len(sel) : ~JSONParse(sel[i].text).ok
        THEN Failed(SyntaxErrorMsg)
        ELSE Validate([usersData |-> ValueOf(f, UsersJson, JNull),
                       conversationsData |-> ValueOf(f, ConversationsJson, JNull),
                       projectsData |-> ValueOf(f, ProjectsJson, JArr(<<>>))])

\* C7: the outcome of a load is the one determined by the non-directory entries
\* whose lower-cased final path segment is users.json, conversations.json or
\* projects.json, at any depth; every such entry is parsed, and directories and
\* other entries change nothing.
C7_SelectsByBasename ==
    (last.settled /\ last.file.zip.readable)
        => /\ last.res = OutcomeOfExpected(last.file)
           /\ last.res.ok
                => /\ users = last.res.users
                   /\ conversations = last.res.conversations
                   /\ projects = last.res.projects

\* An archive has just been loaded from an upper-case users entry in a directory,
\* next to a directory entry and a file of another name that does not parse.
C7_Witness ==
    /\ JustLoaded
    /\ users = <<RecB>>
    /\ \E i \in 1..Len(last.file.zip.files) :
         last.file.zip.files[i].path = PathUsersDeep
    /\ \E i \in 1..Len(last.file.zip.files) :
         last.file.zip.files[i] \in {Entry(PathOther, TextBad), Entry(PathDir, "")}

(***************************************************************************)
(* Properties of the App with overlapping load attempts.                   *)
(***************************************************************************)
InFlight(x) == \E k \in 1..Len(attempts) : attempts[k].id = x

AttemptOf(x) == attempts[CHOOSE k \in 1..Len(attempts) : attempts[k].id = x]

\* The attempt named x has just settled: in failure with its message in error,
\* or in success with dataLoaded true.
SettledAs(x) ==
    /\ last.settled
    /\ last.id = x
    /\ IF last.res.ok THEN dataLoaded
       ELSE error # Null /\ error = last.res.message

\* After a failure that leaves no data loaded, the file input and the drop zone
\* take any file.
RetryAccepted ==
    (JustFailed /\ ~dataLoaded)
        => \A f \in DroppedFiles : ENABLED HandleFileChange(f) /\ ENABLED HandleDrop(f)

\* A suspended attempt keeps its file, is past JSZip.loadAsync for good once it
\* has been, and moves forward through the entries; the step that settles an
\* attempt starts none.
NoInternalRetry ==
    /\ \A x \in 1..MaxInFlight :
         (InFlight(x) /\ InFlight(x)')
            => /\ AttemptOf(x)'.file = AttemptOf(x).file
               /\ AttemptOf(x).pc = "async" => AttemptOf(x)'.pc = "async"
               /\ AttemptOf(x)'.i >= AttemptOf(x).i
    /\ last'.settled => Len(attempts') = Len(attempts) - 1

\* C17: with JSZip.loadAsync and zipEntry.async settling, every started attempt
\* settles, in failure with error set to its message or in success with
\* dataLoaded true; after a failure with no data loaded a new attempt can be
\* started; and an attempt reads its archive once.
C17_EveryAttemptSettles ==
    /\ \A x \in 1..MaxInFlight : InFlight(x) ~> SettledAs(x)
    /\ []RetryAccepted
    /\ [][NoInternalRetry]_vars

\* An attempt has just failed on a missing file, after its entries were read, with
\* no data loaded and the upload screen ready for the next file.
C17_Witness ==
    /\ JustFailed
    /\ ~dataLoaded
    /\ error = MustContainMsg
    /\ attempts = <<>>
    /\ ENABLED HandleFileChange(FileA)

\* An attempt has just succeeded while an attempt started after it is suspended.
C17_WitnessSuccess ==
    /\ JustLoaded
    /\ dataLoaded
    /\ attempts # <<>>

\* C18 as stated: loading is true exactly in the states in which an attempt has
\* started and not yet settled.
C18_LoadingIffInFlight == loading <=> (attempts # <<>>)

\* What holds: while loading is true an attempt is in flight.
LoadingOnlyInFlight == loading => (attempts # <<>>)

\* An attempt has just settled and set loading to false while an attempt started
\* after it is still suspended.
LoadingFalseInFlight ==
    /\ last.settled
    /\ ~loading
    /\ attempts # <<>>

\* C19 as stated: a successful attempt that was started before an attempt that
\* has already succeeded, or before a reset, leaves users, conversations,
\* projects and dataLoaded as they were when it settled.
C19_LatestStartedWins ==
    (JustLoaded /\ (last.overtaken \/ last.reset)) => LoadedStateIs(last.before)

\* An attempt has just replaced the data of an attempt started after it.
EarlierOverwritesLater ==
    /\ JustLoaded
    /\ last.overtaken
    /\ last.before.dataLoaded
    /\ conversations # last.before.conversations

\* An attempt started before a reset has just loaded its data after that reset.
RepopulatedAfterReset ==
    /\ JustLoaded
    /\ last.reset
    /\ ~last.overtaken
    /\ ~last.before.dataLoaded
    /\ dataLoaded

\* C20 as stated: selectedConvId is null or the uuid of a loaded conversation,
\* and it is null whenever dataLoaded is false.
C20_SelectedIsLoaded ==
    /\ \/ selectedConvId = Null
       \/ \E n \in 1..Len(conversations) : conversations[n].uuid = selectedConvId
    /\ ~dataLoaded => selectedConvId = Null

\* What holds: selectedConvId is null whenever dataLoaded is false.
SelectedNullUnlessLoaded == ~dataLoaded => selectedConvId = Null

\* What holds: handleReset sets selectedConvId to null, empties users,
\* conversations and projects and clears error.
ResetClearsAll ==
    [][HandleReset => /\ selectedConvId' = Null
                      /\ users' = <<>>
                      /\ conversations' = <<>>
                      /\ projects' = <<>>
                      /\ error' = Null]_vars

\* An attempt has just replaced the conversations while a conversation of the
\* earlier data was selected.
SelectedNotLoaded ==
    /\ JustLoaded
    /\ dataLoaded
    /\ selectedConvId # Null
    /\ \A n \in 1..Len(conversations) : conversations[n].uuid # selectedConvId
====
